---- MODULE Spec2Model ----
(***************************************************************************)
(* Model of the runway calculator of campus-survival-coach                 *)
(* (features/runway-calculator/logic.ts, class RunwayLogic) and of its     *)
(* persistence hook (hooks/useLocalStorage.ts, as used by useFinancials).  *)
(*                                                                         *)
(* calculateRunway is a pure function of its parameters.  The model keeps  *)
(* the caller's parameter record, the position of the call and its outcome *)
(* (a returned RunwayResult or a thrown Error).                            *)
(*                                                                         *)
(* Numbers.  A JavaScript number is a record [k, h]: k is "fin", "nan",    *)
(* "inf" or "ninf", and a finite number is h / Scale, so that non-integer  *)
(* inputs exist.  All inputs are far below 2^53, so the arithmetic of the  *)
(* code is exact on them.                                                  *)
(*                                                                         *)
(* Dates.  A Date is a record [valid, t]: t counts ticks (TicksPerDay per  *)
(* calendar day) since 00:00 of 1 January EpochYear, in a time zone        *)
(* without daylight saving; an Invalid Date has valid = FALSE.             *)
(*                                                                         *)
(* Spec draws the parameters from valid inputs and exercises the           *)
(* simulation; SpecValidation draws them from valid and invalid values     *)
(* and exercises the validation and calculateRunwaySafe; SpecStorage       *)
(* exercises the useLocalStorage hook, SpecQuota the StorageQuotaWarning   *)
(* component next to it, SpecProfile the useStudentProfile hook and        *)
(* SpecOnboarding the path from OnboardingFlow to useRunwayCalculation.    *)
(***************************************************************************)
EXTENDS Integers, Sequences, FiniteSets, TLC

VARIABLES params, pc, result, safeResult,
          hookVersion, localStorage, hooks, lastSet,
          warning, profileHook, form, dashboard

vars == <<params, pc, result, safeResult,
          hookVersion, localStorage, hooks, lastSet,
          warning, profileHook, form, dashboard>>

runwayVars == <<params, pc, result, safeResult>>

storageVars == <<hookVersion, localStorage, hooks, lastSet>>

appVars == <<warning, profileHook, form, dashboard>>

----------------------------------------------------------------------------
(* Bounds of the model *)

Scale == 2
TicksPerDay == 2
EpochYear == 2023
MaxExpenses == 2
MaxIncomes == 2

----------------------------------------------------------------------------
(* JavaScript numbers *)

Fin(h) == [k |-> "fin", h |-> h]
Num(n) == Fin(n * Scale)
NaN == [k |-> "nan", h |-> 0]
PosInfinity == [k |-> "inf", h |-> 0]
NegInfinity == [k |-> "ninf", h |-> 0]

isFinite(x) == x.k = "fin"
isInteger(x) == x.k = "fin" /\ x.h % Scale = 0
MathFloor(h) == (h \div Scale) * Scale

----------------------------------------------------------------------------
(* Dates and the date-fns helpers *)

DateAt(t) == [valid |-> TRUE, t |-> t]
InvalidDate == [valid |-> FALSE, t |-> 0]

isValidDate(d) == d.valid

IsLeap(y) == (y % 4 = 0 /\ y % 100 # 0) \/ y % 400 = 0

DaysInMonth(y, m) ==
    IF m = 2 THEN (IF IsLeap(y) THEN 29 ELSE 28)
    ELSE IF m \in {4, 6, 9, 11} THEN 30 ELSE 31

RECURSIVE CivilFrom(_, _, _)
CivilFrom(y, m, n) ==
    IF n < DaysInMonth(y, m)
    THEN [y |-> y, m |-> m, d |-> n + 1]
    ELSE CivilFrom(IF m = 12 THEN y + 1 ELSE y,
                   IF m = 12 THEN 1 ELSE m + 1,
                   n - DaysInMonth(y, m))

LastDayIndex == 3 * 366

Calendar == [n \in 0..LastDayIndex |-> CivilFrom(EpochYear, 1, n)]

DayIndex(d) == d.t \div TicksPerDay

getDate(d) == Calendar[DayIndex(d)].d

addDaysDiscarded(d, n) == d

addDays(d, n) == DateAt(d.t + n * TicksPerDay)

isSameInstant(a, b) == a.t = b.t

isSameDay(a, b) == DayIndex(a) = DayIndex(b)

toISOString(d) == [iso |-> d.t]

----------------------------------------------------------------------------
(* Program constants *)

maxDays == 365
MinBalance == -1000000
MaxBalance == 100000000
MaxDailySpend == 100000
targetDays30 == 30

----------------------------------------------------------------------------
(* Input validation, in the order of the code; the first violation throws *)

Error(message, name, value) ==
    [message |-> message, name |-> name, value |-> value]

NoError == [message |-> "", name |-> <<>>, value |-> <<>>]

IsError(e) == e.message # ""

ExpenseErrorNoUpperDay(expense) ==
    IF ~isFinite(expense.amount) \/ expense.amount.h <= 0
    THEN Error("Invalid expense amount", <<expense.name>>, expense.amount)
    ELSE IF ~isInteger(expense.dueDay) \/ expense.dueDay.h < 1 * Scale
    THEN Error("Invalid dueDay", <<expense.name>>, expense.dueDay)
    ELSE NoError

ExpenseError(expense) ==
    IF ~isFinite(expense.amount) \/ expense.amount.h <= 0
    THEN Error("Invalid expense amount", <<expense.name>>, expense.amount)
    ELSE IF ~isInteger(expense.dueDay) \/ expense.dueDay.h < 1 * Scale
            \/ expense.dueDay.h > 31 * Scale
    THEN Error("Invalid dueDay", <<expense.name>>, expense.dueDay)
    ELSE NoError

IncomeError(income) ==
    IF ~isFinite(income.amount) \/ income.amount.h <= 0
    THEN Error("Invalid income amount", <<income.source>>, income.amount)
    ELSE IF ~isValidDate(income.date)
    THEN Error("Invalid income date", <<income.source>>, income.date)
    ELSE NoError

RECURSIVE FirstExpenseError(_, _)
FirstExpenseError(fixedExpenses, i) ==
    IF i > Len(fixedExpenses) THEN NoError
    ELSE IF IsError(ExpenseError(fixedExpenses[i]))
    THEN ExpenseError(fixedExpenses[i])
    ELSE FirstExpenseError(fixedExpenses, i + 1)

RECURSIVE FirstIncomeError(_, _)
FirstIncomeError(incomeEvents, i) ==
    IF i > Len(incomeEvents) THEN NoError
    ELSE IF IsError(IncomeError(incomeEvents[i]))
    THEN IncomeError(incomeEvents[i])
    ELSE FirstIncomeError(incomeEvents, i + 1)

BalanceErrorAtBoundary(currentBalance) ==
    IF ~isFinite(currentBalance)
    THEN Error("Invalid balance", <<>>, currentBalance)
    ELSE IF currentBalance.h <= MinBalance * Scale
    THEN Error("Balance too low", <<>>, currentBalance)
    ELSE IF currentBalance.h > MaxBalance * Scale
    THEN Error("Balance too high", <<>>, currentBalance)
    ELSE NoError

BalanceError(currentBalance) ==
    IF ~isFinite(currentBalance)
    THEN Error("Invalid balance", <<>>, currentBalance)
    ELSE IF currentBalance.h < MinBalance * Scale
    THEN Error("Balance too low", <<>>, currentBalance)
    ELSE IF currentBalance.h > MaxBalance * Scale
    THEN Error("Balance too high", <<>>, currentBalance)
    ELSE NoError

DailySpendError(dailyVariableSpend) ==
    IF ~isFinite(dailyVariableSpend)
    THEN Error("Invalid daily spend", <<>>, dailyVariableSpend)
    ELSE IF dailyVariableSpend.h < 0
    THEN Error("Daily spend cannot be negative", <<>>, dailyVariableSpend)
    ELSE IF dailyVariableSpend.h > MaxDailySpend * Scale
    THEN Error("Daily spend unrealistically high", <<>>, dailyVariableSpend)
    ELSE NoError

StartDateError(startDate) ==
    IF ~isValidDate(startDate)
    THEN Error("Invalid start date", <<>>, startDate)
    ELSE NoError

ValidateAfterShortCircuit(p) ==
    IF IsError(BalanceError(p.currentBalance))
    THEN BalanceError(p.currentBalance)
    ELSE IF p.currentBalance.h < 0
    THEN NoError
    ELSE IF IsError(DailySpendError(p.dailyVariableSpend))
    THEN DailySpendError(p.dailyVariableSpend)
    ELSE IF IsError(StartDateError(p.startDate))
    THEN StartDateError(p.startDate)
    ELSE IF IsError(FirstExpenseError(p.fixedExpenses, 1))
    THEN FirstExpenseError(p.fixedExpenses, 1)
    ELSE FirstIncomeError(p.incomeEvents, 1)

Validate(p) ==
    IF IsError(BalanceError(p.currentBalance))
    THEN BalanceError(p.currentBalance)
    ELSE IF IsError(DailySpendError(p.dailyVariableSpend))
    THEN DailySpendError(p.dailyVariableSpend)
    ELSE IF IsError(StartDateError(p.startDate))
    THEN StartDateError(p.startDate)
    ELSE IF IsError(FirstExpenseError(p.fixedExpenses, 1))
    THEN FirstExpenseError(p.fixedExpenses, 1)
    ELSE FirstIncomeError(p.incomeEvents, 1)

----------------------------------------------------------------------------
(* The day-by-day simulation *)

SumAmountsFirstOnly(records) ==
    IF records = <<>> THEN 0 ELSE Head(records).amount.h

RECURSIVE SumAmounts(_)
SumAmounts(records) ==
    IF records = <<>> THEN 0
    ELSE Head(records).amount.h + SumAmounts(Tail(records))

isDueOn(e, dayOfMonth) == e.dueDay.h = dayOfMonth * Scale

todaysIncomePending(incomeEvents, currentDate) ==
    SumAmounts(SelectSeq(incomeEvents,
        LAMBDA e : /\ isSameDay(e.date, currentDate)
                   /\ ~("isReceived" \in DOMAIN e /\ e.isReceived)))

todaysIncome(incomeEvents, currentDate) ==
    SumAmounts(SelectSeq(incomeEvents,
                         LAMBDA e : isSameDay(e.date, currentDate)))

todaysFixedExpenses(fixedExpenses, currentDate) ==
    SumAmounts(SelectSeq(fixedExpenses,
                         LAMBDA e : isDueOn(e, getDate(currentDate))))

BalanceAfterDayNoSpend(p, balance, currentDate) ==
    balance + todaysIncome(p.incomeEvents, currentDate)
            - todaysFixedExpenses(p.fixedExpenses, currentDate)

BalanceAfterDay(p, balance, currentDate) ==
    balance + todaysIncome(p.incomeEvents, currentDate)
            - todaysFixedExpenses(p.fixedExpenses, currentDate)
            - p.dailyVariableSpend.h

ProjectionEntry(currentDate, balance) ==
    [date |-> toISOString(currentDate), balance |-> Fin(MathFloor(balance))]

CheckFailureInverted(balance) == balance > 0

CheckFailureAtZero(balance) == balance <= 0

CheckFailure(balance) == balance < 0

LoopStart(p) ==
    [balance |-> p.currentBalance.h, currentDate |-> p.startDate,
     daysResult |-> 0, projection |-> <<>>, broke |-> FALSE]

LoopConditionInclusive(daysResult) == daysResult <= maxDays

LoopCondition(daysResult) == daysResult < maxDays

(* One evaluation of the loop condition and, when it holds, of the body;  *)
(* broke records that the body left the loop by break.                    *)
LoopIteration(p, s) ==
    IF s.broke \/ ~LoopCondition(s.daysResult) THEN s
    ELSE LET balance == BalanceAfterDay(p, s.balance, s.currentDate)
             projection == Append(s.projection,
                                  ProjectionEntry(s.currentDate, balance))
         IN  IF CheckFailure(balance)
             THEN [s EXCEPT !.balance = balance, !.projection = projection,
                            !.broke = TRUE]
             ELSE [balance |-> balance,
                   currentDate |-> addDays(s.currentDate, 1),
                   daysResult |-> s.daysResult + 1,
                   projection |-> projection,
                   broke |-> FALSE]

(* n iterations in sequence.  The run is split in halves, and the state   *)
(* between the halves is bound as a value, to keep the evaluation shallow. *)
Only(S) == CHOOSE x \in S : TRUE

RECURSIVE Iterate(_, _, _)
Iterate(p, s, n) ==
    IF n = 0 THEN s
    ELSE IF n = 1 THEN LoopIteration(p, s)
    ELSE Only({Iterate(p, mid, n - (n \div 2)) :
                   mid \in {Iterate(p, s, n \div 2)}})

(* The loop runs until its condition fails or it breaks: at most maxDays  *)
(* iterations change the state, and one more finds the condition false.   *)
SimulationLoop(p) == Iterate(p, LoopStart(p), maxDays + 1)

StatusOfInclusive(daysResult) ==
    IF daysResult <= 7 THEN "critical"
    ELSE IF daysResult <= 30 THEN "warning"
    ELSE "good"

StatusOf(daysResult) ==
    IF daysResult < 7 THEN "critical"
    ELSE IF daysResult < 30 THEN "warning"
    ELSE "good"

----------------------------------------------------------------------------
(* calculateSafeSpendForTarget *)

InIncomeRangeExclusive(e, startDate, targetDate) ==
    e.date.t < targetDate.t /\ e.date.t >= startDate.t

InIncomeRange(e, startDate, targetDate) ==
    e.date.t <= targetDate.t /\ e.date.t >= startDate.t

RECURSIVE TotalFixed(_, _, _, _)
TotalFixed(fixedExpenses, tempDate, i, targetDays) ==
    IF ~(i < targetDays) THEN 0
    ELSE todaysFixedExpenses(fixedExpenses, tempDate)
         + TotalFixed(fixedExpenses, addDays(tempDate, 1), i + 1, targetDays)

calculateSafeSpendForTarget(targetDays, p) ==
    LET targetDate == addDays(p.startDate, targetDays)
        relevantIncome ==
            SumAmounts(SelectSeq(p.incomeEvents,
                LAMBDA e : InIncomeRange(e, p.startDate, targetDate)))
        totalFixed == TotalFixed(p.fixedExpenses, p.startDate, 0, targetDays)
        availableMoney == p.currentBalance.h + relevantIncome - totalFixed
    IN  IF availableMoney <= 0 THEN Num(0)
        ELSE Fin((availableMoney \div (targetDays * Scale)) * Scale)

----------------------------------------------------------------------------
(* calculateRunway *)

Thrown(e) == [threw |-> TRUE, error |-> e]

ShortCircuitRemoved(currentBalance) == FALSE

ShortCircuit(currentBalance) == currentBalance.h < 0

calculateRunway(p) ==
    IF IsError(Validate(p)) THEN Thrown(Validate(p))
    ELSE IF ShortCircuit(p.currentBalance)
    THEN [threw |-> FALSE,
          daysRemaining |-> 0,
          safeDailySpend |-> Num(0),
          brokeDate |-> p.startDate,
          status |-> "critical",
          projectedBalance |-> <<>>]
    ELSE LET s == SimulationLoop(p)
         IN  [threw |-> FALSE,
              daysRemaining |-> s.daysResult,
              brokeDate |-> s.currentDate,
              safeDailySpend |-> calculateSafeSpendForTarget(targetDays30, p),
              status |-> StatusOf(s.daysResult),
              projectedBalance |-> s.projection]

(* calculateRunwaySafe: the call in a try block; the catch clause returns *)
(* the message of the Error it caught.                                    *)
StringOfError(error) == [message |-> "Error: ", name |-> <<error>>,
                         value |-> <<>>]

CaughtMessage(error) == error

calculateRunwaySafe(p) ==
    LET outcome == calculateRunway(p)
    IN  IF outcome.threw
        THEN [success |-> FALSE, error |-> CaughtMessage(outcome.error)]
        ELSE [success |-> TRUE, result |-> outcome]

(* The caller's parameter object after a call: the code reads its fields  *)
(* with for...of, filter and reduce, and assigns to none of them.         *)
ArgumentsAfterShift(p) == [p EXCEPT !.incomeEvents = <<>>]

ArgumentsAfter(p) == p

----------------------------------------------------------------------------
(* Inputs of the calls *)

SeqsUpTo(S, n) == UNION {[1..k -> S] : k \in 0..n}

Noon == 1

Feb1Midnight == DateAt(31 * TicksPerDay)
Feb1Noon == DateAt(31 * TicksPerDay + Noon)

StartDates == {Feb1Midnight, Feb1Noon}

ValidBalances ==
    {Num(MinBalance), Num(-1), Num(0), Num(700), Num(3000), Num(MaxBalance)}

ValidSpends == {Num(0), Num(100)}

Expense(name, amount, dueDay) ==
    [name |-> name, amount |-> amount, dueDay |-> dueDay]

Income(source, amount, date) ==
    [source |-> source, amount |-> amount, date |-> date]

ValidExpenses ==
    {Expense("Rent", Num(500), Num(31)),
     Expense("Netflix", Fin(100 * Scale + 1), Num(1))}

ValidIncomes ==
    {Income("Mom", Num(500), DateAt(31 * TicksPerDay)),
     Income("HELB", Num(300), DateAt(61 * TicksPerDay))}

ValidInputs ==
    [currentBalance : ValidBalances,
     startDate : StartDates,
     fixedExpenses : SeqsUpTo(ValidExpenses, MaxExpenses),
     incomeEvents : SeqsUpTo(ValidIncomes, MaxIncomes),
     dailyVariableSpend : ValidSpends]

AnyBalances ==
    {NaN, PosInfinity, NegInfinity, Fin(MinBalance * Scale - 1),
     Num(MinBalance), Num(100), Num(MaxBalance), Fin(MaxBalance * Scale + 1)}

AnySpends ==
    {NaN, PosInfinity, Fin(-1), Num(0), Num(MaxDailySpend),
     Fin(MaxDailySpend * Scale + 1)}

AnyStartDates == {Feb1Midnight, InvalidDate}

AnyExpenses ==
    {Expense("Rent", Num(500), Num(31)),
     Expense("Free", Num(0), Num(1)),
     Expense("Broken", NaN, Num(32)),
     Expense("Day0", Num(500), Num(0)),
     Expense("Day32", Num(500), Num(32)),
     Expense("MidDay", Num(500), Fin(Scale + 1))}

AnyIncomes ==
    {Income("Mom", Num(500), DateAt(31 * TicksPerDay)),
     Income("Nothing", Num(0), DateAt(31 * TicksPerDay)),
     Income("Lottery", PosInfinity, InvalidDate),
     Income("Someday", Num(500), InvalidDate)}

AnyInputs ==
    [currentBalance : AnyBalances,
     startDate : AnyStartDates,
     fixedExpenses : SeqsUpTo(AnyExpenses, MaxExpenses),
     incomeEvents : SeqsUpTo(AnyIncomes, MaxIncomes),
     dailyVariableSpend : AnySpends]

----------------------------------------------------------------------------
(* hooks/useLocalStorage.ts: values, JSON text and schemas                 *)
(*                                                                         *)
(* The source holds two versions of the hook.  Both initialise, write and  *)
(* handle the storage event of another tab alike; the version of           *)
(* unnamed/part_001 also dispatches a 'local-storage' event after a write  *)
(* and listens to it, the version of src/hooks/useLocalStorage.ts does     *)
(* not.  hookVersion says which one is built.                              *)
(*                                                                         *)
(* The instances are those of useFinancials: key csc_financials_v1,        *)
(* FinancialDataSchema, and the empty financial data as initialValue.      *)
(* A string of localStorage is a record: kind "null" is the absent item    *)
(* (getItem returns null), "empty" the empty string, "corrupt" a text      *)
(* that is not JSON, and "json" a JSON text with the value it denotes.     *)

HooksVersion == "src/hooks/useLocalStorage.ts"
Part001Version == "unnamed/part_001"
HookVersions == {HooksVersion, Part001Version}

FinancialsKey == "csc_financials_v1"
ProfileKey == "csc_student_profile_v1"
Keys == {FinancialsKey, ProfileKey}

Hooks == {"hook1", "hook2"}

JsNull == [type |-> "null"]
JsNumber(x) == [type |-> "number", value |-> x]

FinancialData(fixedExpenses, incomeEvents) ==
    [type |-> "object", fixedExpenses |-> fixedExpenses,
     incomeEvents |-> incomeEvents]

initialValue == FinancialData(<<>>, <<>>)

NoItem == [kind |-> "null"]
EmptyString == [kind |-> "empty"]
CorruptText == [kind |-> "corrupt"]
JsonText(v) == [kind |-> "json", value |-> v]

(* !item *)
IsFalsy(item) == item.kind \in {"null", "empty"}

(* Date.prototype.toJSON is toISOString: a Date is written as a string. *)
IncomeToJSON(income) == [income EXCEPT !.date = toISOString(@)]

toJSON(v) ==
    IF v.type = "object"
    THEN [v EXCEPT !.incomeEvents =
              [i \in 1..Len(v.incomeEvents) |-> IncomeToJSON(v.incomeEvents[i])]]
    ELSE IF v.type = "profile"
    THEN [v EXCEPT !.createdAt = toISOString(@),
                   !.lastUpdated = toISOString(@)]
    ELSE v

JSONstringify(v) == JsonText(toJSON(v))

(* JSON.parse throws a SyntaxError on a text that is not JSON; strings    *)
(* stay strings, no Date is revived.                                      *)
JSONparse(text) ==
    IF text.kind = "json"
    THEN [threw |-> FALSE, value |-> text.value]
    ELSE [threw |-> TRUE, value |-> JsNull]

(* z.date(): a Date object with a valid time *)
zDate(v) == "valid" \in DOMAIN v /\ v.valid

zPositiveNumber(x) == x.k \in {"fin", "inf"} /\ (x.k = "inf" \/ x.h > 0)

FixedExpenseSchema(e) ==
    /\ e.name # ""
    /\ zPositiveNumber(e.amount)
    /\ e.dueDay.k = "fin"
    /\ e.dueDay.h >= 1 * Scale
    /\ e.dueDay.h <= 31 * Scale

IncomeEventSchema(e) ==
    /\ zPositiveNumber(e.amount)
    /\ zDate(e.date)
    /\ e.source # ""

FinancialDataSchemaAcceptsAll(v) == TRUE

FinancialDataSchema(v) ==
    /\ v.type = "object"
    /\ \A i \in 1..Len(v.fixedExpenses) : FixedExpenseSchema(v.fixedExpenses[i])
    /\ \A i \in 1..Len(v.incomeEvents) : IncomeEventSchema(v.incomeEvents[i])

safeParse(v) == [success |-> FinancialDataSchema(v), data |-> v]

----------------------------------------------------------------------------
(* hooks/useLocalStorage.ts: the hook *)

StoredRent == Expense("Rent", Num(500), Num(31))
StoredHelb == Income("HELB", Num(300), DateAt(61 * TicksPerDay))

(* The financial data the forms can produce *)
StoredDatas ==
    {FinancialData(<<>>, <<>>),
     FinancialData(<<StoredRent>>, <<>>),
     FinancialData(<<>>, <<StoredHelb>>),
     FinancialData(<<StoredRent>>, <<StoredHelb>>)}

(* What the browser can hold under the key before the hook runs, and what *)
(* another tab can write: nothing, texts that are not JSON, JSON of       *)
(* another shape, JSON failing the schema, and what setValue writes.      *)
StoredTexts ==
    {NoItem, EmptyString, CorruptText,
     JsonText(JsNumber(Num(42))),
     JsonText(FinancialData(<<Expense("Rent", Num(500), Num(0))>>, <<>>))}
    \cup {JSONstringify(d) : d \in StoredDatas}

ProfileTexts == {NoItem, JsonText(JsNull)}

TextsOf(key) == IF key = FinancialsKey THEN StoredTexts ELSE ProfileTexts

(* setValue takes a value or a function of the previous value; the        *)
(* functions are those of useFinancials.                                  *)
Update(op, arg) == [op |-> op, arg |-> arg]

Updates ==
    {Update("value", d) : d \in StoredDatas}
    \cup {Update("addFixedExpense", StoredRent),
          Update("addIncomeEvent", StoredHelb)}

(* value instanceof Function ? value(storedValue) : value *)
valueToStore(update, storedValue) ==
    IF update.op = "value" THEN update.arg
    ELSE IF update.op = "addFixedExpense"
    THEN [storedValue EXCEPT !.fixedExpenses = Append(@, update.arg)]
    ELSE [storedValue EXCEPT !.incomeEvents = Append(@, update.arg)]

QuotaExceededError == [type |-> "DOMException", name |-> "QuotaExceededError"]

(* An instance: its React state storedValue and error, and the            *)
(* storedValue of its last render, which the setValue callback of that    *)
(* render closes over.                                                    *)
Unmounted ==
    [mounted |-> FALSE, storedValue |-> JsNull, rendered |-> JsNull,
     error |-> JsNull]

(* The initialiser of useState *)
InitialStoredValue(item) ==
    IF IsFalsy(item) THEN initialValue
    ELSE IF JSONparse(item).threw THEN initialValue
    ELSE IF safeParse(JSONparse(item).value).success
    THEN safeParse(JSONparse(item).value).data
    ELSE initialValue

(* updateState, and the body of the storage handler after its guard *)
updateStateOrReset(hook, rawValue) ==
    IF JSONparse(rawValue).threw THEN hook
    ELSE IF safeParse(JSONparse(rawValue).value).success
    THEN [hook EXCEPT !.storedValue = safeParse(JSONparse(rawValue).value).data]
    ELSE [hook EXCEPT !.storedValue = initialValue]

updateState(hook, rawValue) ==
    IF JSONparse(rawValue).threw THEN hook
    ELSE IF safeParse(JSONparse(rawValue).value).success
    THEN [hook EXCEPT !.storedValue = safeParse(JSONparse(rawValue).value).data]
    ELSE hook

(* handleStorageChange for the 'local-storage' event of the same tab *)
handleLocalStorageEvent(hook, storage) ==
    IF ~hook.mounted \/ IsFalsy(storage[FinancialsKey]) THEN hook
    ELSE updateState(hook, storage[FinancialsKey])

(* handleStorageChange for the storage event of another tab *)
handleStorageEventClearing(hook, key, newValue) ==
    IF hook.mounted /\ key = FinancialsKey
    THEN IF IsFalsy(newValue)
         THEN [hook EXCEPT !.storedValue = initialValue]
         ELSE updateState(hook, newValue)
    ELSE hook

handleStorageEvent(hook, key, newValue) ==
    IF hook.mounted /\ key = FinancialsKey /\ ~IsFalsy(newValue)
    THEN updateState(hook, newValue)
    ELSE hook

(* lastSet remembers the last setValue of this tab: the instance, the     *)
(* value, whether setItem stored it, and whether a 'local-storage' event  *)
(* was dispatched after it.                                               *)
NoSet == [hook |-> "", value |-> JsNull, stored |-> FALSE,
          dispatched |-> FALSE]

----------------------------------------------------------------------------
(* The state machines.  A caller holds the parameters and calls           *)
(* calculateRunway or calculateRunwaySafe once; components mount          *)
(* instances of the hook, set values and render, and another tab writes.  *)

NoResult == [threw |-> FALSE]

NoSafeResult == [success |-> FALSE, error |-> NoError]

IdleParams ==
    [currentBalance |-> Num(0), startDate |-> Feb1Midnight,
     fixedExpenses |-> <<>>, incomeEvents |-> <<>>,
     dailyVariableSpend |-> Num(0)]

(* StorageQuotaWarning before any event: useState(false), useState('')    *)
Hidden == [showWarning |-> FALSE, errorKey |-> ""]

(* The form of OnboardingFlow as its useState calls initialise it *)
InitialForm ==
    [name |-> <<>>, currentBalance |-> Num(0), cheapestMeal |-> Num(50),
     foodHabits |-> "mostly-cook", errors |-> {}]

(* The dashboard before its first render *)
NoDashboard == [rendered |-> FALSE]

NoApp ==
    /\ warning = Hidden
    /\ profileHook = Unmounted
    /\ form = InitialForm
    /\ dashboard = NoDashboard

NotCalled ==
    /\ pc = "ready"
    /\ result = NoResult
    /\ safeResult = NoSafeResult

NoStorage ==
    /\ hookVersion = HooksVersion
    /\ localStorage = [key \in Keys |-> NoItem]
    /\ hooks = [i \in Hooks |-> Unmounted]
    /\ lastSet = NoSet

Init ==
    /\ params \in ValidInputs
    /\ NotCalled
    /\ NoStorage
    /\ NoApp

InitValidation ==
    /\ params \in AnyInputs
    /\ NotCalled
    /\ NoStorage
    /\ NoApp

InitStorage ==
    /\ params = IdleParams
    /\ NotCalled
    /\ hookVersion \in HookVersions
    /\ localStorage \in [Keys -> StoredTexts \cup ProfileTexts]
    /\ \A key \in Keys : localStorage[key] \in TextsOf(key)
    /\ hooks = [i \in Hooks |-> Unmounted]
    /\ lastSet = NoSet
    /\ NoApp

Call ==
    /\ pc = "ready"
    /\ result' = calculateRunway(params)
    /\ pc' = IF result'.threw THEN "thrown" ELSE "returned"
    /\ params' = ArgumentsAfter(params)
    /\ UNCHANGED safeResult
    /\ UNCHANGED storageVars
    /\ UNCHANGED appVars

(* calculateRunwaySafe: pc and result are the outcome of the call inside  *)
(* the try block, safeResult is what the wrapper returns.                 *)
CallSafe ==
    /\ pc = "ready"
    /\ result' = calculateRunway(params)
    /\ pc' = IF result'.threw THEN "thrown" ELSE "returned"
    /\ safeResult' = calculateRunwaySafe(params)
    /\ params' = ArgumentsAfter(params)
    /\ UNCHANGED storageVars
    /\ UNCHANGED appVars

Next == Call

NextValidation == Call \/ CallSafe

Spec == Init /\ [][Next]_vars

SpecValidation == InitValidation /\ [][NextValidation]_vars

(* The first render of a component using the hook: the initialiser reads  *)
(* localStorage, and the effect registers the handlers.                   *)
Mount(i) ==
    /\ ~hooks[i].mounted
    /\ hooks' = [hooks EXCEPT ![i] =
           [mounted |-> TRUE,
            storedValue |-> InitialStoredValue(localStorage[FinancialsKey]),
            rendered |-> InitialStoredValue(localStorage[FinancialsKey]),
            error |-> JsNull]]
    /\ UNCHANGED <<hookVersion, localStorage, lastSet>>
    /\ UNCHANGED runwayVars
    /\ UNCHANGED appVars

(* A later render of the component: setValue is created anew over the     *)
(* current storedValue.                                                   *)
Render(i) ==
    /\ hooks[i].mounted
    /\ hooks[i].rendered # hooks[i].storedValue
    /\ hooks' = [hooks EXCEPT ![i].rendered = hooks[i].storedValue]
    /\ UNCHANGED <<hookVersion, localStorage, lastSet>>
    /\ UNCHANGED runwayVars
    /\ UNCHANGED appVars

(* setValue of instance i.  setStoredValue comes first; setItem throws    *)
(* when the quota is exceeded, and the catch clause sets error.  In the   *)
(* version of part_001 a successful write dispatches 'local-storage',     *)
(* and the handler of every mounted instance runs before setValue returns. *)
SetValue(i, update, quotaExceeded) ==
    /\ hooks[i].mounted
    /\ valueToStore(update, hooks[i].rendered) \in StoredDatas
    /\ LET value == valueToStore(update, hooks[i].rendered)
           set == [hooks EXCEPT ![i].storedValue = value]
           written == [localStorage EXCEPT
                           ![FinancialsKey] = JSONstringify(value)]
       IN  /\ localStorage' = IF quotaExceeded THEN localStorage ELSE written
           /\ hooks' =
                 IF quotaExceeded
                 THEN [set EXCEPT ![i].error = QuotaExceededError]
                 ELSE IF hookVersion = Part001Version
                 THEN [j \in Hooks |-> handleLocalStorageEvent(set[j], written)]
                 ELSE set
           /\ lastSet' = [hook |-> i, value |-> value,
                          stored |-> ~quotaExceeded,
                          dispatched |-> ~quotaExceeded
                                           /\ hookVersion = Part001Version]
    /\ UNCHANGED hookVersion
    /\ UNCHANGED runwayVars
    /\ UNCHANGED appVars

(* Another tab sets or removes a key: the browser changes the shared      *)
(* storage and fires the storage event in this tab.                       *)
StorageEvent(key, newValue) ==
    /\ newValue # localStorage[key]
    /\ localStorage' = [localStorage EXCEPT ![key] = newValue]
    /\ hooks' = [j \in Hooks |-> handleStorageEvent(hooks[j], key, newValue)]
    /\ lastSet' = NoSet
    /\ UNCHANGED hookVersion
    /\ UNCHANGED runwayVars
    /\ UNCHANGED appVars

(* Code outside the hook dispatches a 'local-storage' event on window; in *)
(* the version of src/hooks nothing listens to it.                        *)
DispatchLocalStorageEvent ==
    /\ hooks' = IF hookVersion = Part001Version
                THEN [j \in Hooks |->
                         handleLocalStorageEvent(hooks[j], localStorage)]
                ELSE hooks
    /\ lastSet' = IF lastSet = NoSet THEN lastSet
                  ELSE [lastSet EXCEPT !.dispatched = TRUE]
    /\ UNCHANGED <<hookVersion, localStorage>>
    /\ UNCHANGED runwayVars
    /\ UNCHANGED appVars

NextStorage ==
    \/ DispatchLocalStorageEvent
    \/ \E i \in Hooks : Mount(i)
    \/ \E i \in Hooks : Render(i)
    \/ \E i \in Hooks, update \in Updates, quotaExceeded \in BOOLEAN :
           SetValue(i, update, quotaExceeded)
    \/ \E key \in Keys : \E newValue \in TextsOf(key) :
           StorageEvent(key, newValue)

SpecStorage == InitStorage /\ [][NextStorage]_vars

----------------------------------------------------------------------------
(* components/StorageQuotaWarning.tsx next to the hook *)

(* The detail of a 'storage-quota-exceeded' CustomEvent: absent, or the    *)
(* key whose write failed.                                                 *)
NoDetail == [type |-> "undefined"]

Detail(key) == [type |-> "object", key |-> key]

Details == {NoDetail} \cup {Detail(key) : key \in Keys}

(* handleQuotaExceeded: detail?.key || 'unknown', then setShowWarning(true) *)
handleQuotaExceeded(detail) ==
    [showWarning |-> TRUE,
     errorKey |-> IF detail.type = "object" THEN detail.key ELSE "unknown"]

(* Code outside the hook dispatches 'storage-quota-exceeded' on window;    *)
(* neither version of setValue does.                                       *)
DispatchQuotaExceededEvent(detail) ==
    /\ warning' = handleQuotaExceeded(detail)
    /\ UNCHANGED <<profileHook, form, dashboard>>
    /\ UNCHANGED storageVars
    /\ UNCHANGED runwayVars

(* The close button of the card, rendered only while showWarning holds *)
Dismiss ==
    /\ warning.showWarning
    /\ warning' = [warning EXCEPT !.showWarning = FALSE]
    /\ UNCHANGED <<profileHook, form, dashboard>>
    /\ UNCHANGED storageVars
    /\ UNCHANGED runwayVars

(* handleClearOldData: after confirm(), every key outside the essential    *)
(* ones is removed and the warning is hidden.                              *)
handleClearOldData(confirmed) ==
    /\ warning.showWarning
    /\ localStorage' =
           IF confirmed
           THEN [key \in DOMAIN localStorage |->
                    IF key \in Keys THEN localStorage[key] ELSE NoItem]
           ELSE localStorage
    /\ warning' = IF confirmed THEN [warning EXCEPT !.showWarning = FALSE]
                  ELSE warning
    /\ UNCHANGED <<hookVersion, hooks, lastSet>>
    /\ UNCHANGED <<profileHook, form, dashboard>>
    /\ UNCHANGED runwayVars

InitQuota ==
    /\ params = IdleParams
    /\ NotCalled
    /\ hookVersion \in HookVersions
    /\ localStorage = [key \in Keys |-> NoItem]
    /\ hooks = [i \in Hooks |-> Unmounted]
    /\ lastSet = NoSet
    /\ NoApp

NextQuota ==
    \/ \E i \in Hooks : Mount(i)
    \/ \E i \in Hooks : Render(i)
    \/ \E i \in Hooks, update \in Updates, quotaExceeded \in BOOLEAN :
           SetValue(i, update, quotaExceeded)
    \/ \E detail \in Details : DispatchQuotaExceededEvent(detail)
    \/ Dismiss
    \/ \E confirmed \in BOOLEAN : handleClearOldData(confirmed)

(* React renders a component again after its state has been set. *)
SpecQuota ==
    /\ InitQuota
    /\ [][NextQuota]_vars
    /\ WF_vars(\E i \in Hooks : Render(i))

----------------------------------------------------------------------------
(* features/user-profile: types.ts and useStudentProfile (hooks.ts)         *)
(*                                                                         *)
(* A profile keeps the fields the hooks read or write: id, name,           *)
(* createdAt, lastUpdated, foodHabits, cheapestMealCost, currentBalance;   *)
(* campusType, livingArrangement and transportPattern are enumerations     *)
(* that are only copied.  A name is a sequence of characters.              *)

FoodHabits == {"mostly-cook", "mostly-buy", "mixed"}

(* crypto.randomUUID(), or `user-${Date.now()}` where it is not available *)
Uuid(n) == [uuid |-> TRUE, n |-> n]

FallbackId(now) == [uuid |-> FALSE, n |-> now.t]

NewIds(now) == {Uuid(2), FallbackId(now)}

(* new Date() at the time of a call *)
Clock == {DateAt(40 * TicksPerDay + 1), DateAt(41 * TicksPerDay)}

ProfileData(name, foodHabits, cheapestMealCost, currentBalance) ==
    [name |-> name, foodHabits |-> foodHabits,
     cheapestMealCost |-> cheapestMealCost,
     currentBalance |-> currentBalance]

ProfileDatas ==
    {ProfileData(<<"B">>, "mostly-buy", Num(5000), Num(0))}

(* createProfile: { ...data, id, createdAt: new Date(), lastUpdated: new Date() } *)
NewProfile(data, id, now) ==
    [type |-> "profile", id |-> id, name |-> data.name,
     createdAt |-> now, lastUpdated |-> now,
     foodHabits |-> data.foodHabits,
     cheapestMealCost |-> data.cheapestMealCost,
     currentBalance |-> data.currentBalance]

(* Partial<StudentProfile>: any subset of the fields with new values *)
ProfileUpdates ==
    {[currentBalance |-> Num(100), foodHabits |-> "mixed"],
     [id |-> Uuid(3), createdAt |-> DateAt(0), lastUpdated |-> DateAt(0)]}

(* { ...prev, ...updates, lastUpdated: new Date() } *)
UpdatedProfile(prev, updates, now) ==
    [f \in DOMAIN prev |->
        IF f = "lastUpdated" THEN now
        ELSE IF f \in DOMAIN updates THEN updates[f]
        ELSE prev[f]]

(* z.coerce.date(): new Date(input); a Date stays, an ISO string is read *)
coerceDate(x) == IF "iso" \in DOMAIN x THEN DateAt(x.iso) ELSE x

zCoerceDate(x) == "iso" \in DOMAIN x \/ ("valid" \in DOMAIN x /\ x.valid)

zUuid(id) == id.uuid

StudentProfileSchema(v) ==
    /\ v.type = "profile"
    /\ zUuid(v.id)
    /\ Len(v.name) >= 1
    /\ zCoerceDate(v.createdAt)
    /\ zCoerceDate(v.lastUpdated)
    /\ v.foodHabits \in FoodHabits
    /\ v.cheapestMealCost.k = "fin" /\ v.cheapestMealCost.h >= 0
    /\ v.currentBalance.k = "fin"

(* StudentProfileSchema.nullable().safeParse *)
profileSafeParse(v) ==
    IF v = JsNull THEN [success |-> TRUE, data |-> JsNull]
    ELSE IF StudentProfileSchema(v)
    THEN [success |-> TRUE,
          data |-> [v EXCEPT !.createdAt = coerceDate(@),
                             !.lastUpdated = coerceDate(@)]]
    ELSE [success |-> FALSE, data |-> JsNull]

(* The useState initialiser of useLocalStorage with initialValue null *)
InitialProfileValue(item) ==
    IF IsFalsy(item) THEN JsNull
    ELSE IF JSONparse(item).threw THEN JsNull
    ELSE profileSafeParse(JSONparse(item).value).data

(* The handler of 'local-storage' (version of part_001) on the profile key *)
handleProfileStorageEvent(hook, storage) ==
    IF ~hook.mounted \/ IsFalsy(storage[ProfileKey]) THEN hook
    ELSE IF JSONparse(storage[ProfileKey]).threw THEN hook
    ELSE IF profileSafeParse(JSONparse(storage[ProfileKey]).value).success
    THEN [hook EXCEPT !.storedValue =
              profileSafeParse(JSONparse(storage[ProfileKey]).value).data]
    ELSE hook

(* hasProfile: !!profile, for the profile of the last render *)
hasProfile(hook) == hook.rendered # JsNull

StoredProfile ==
    NewProfile(ProfileData(<<"A", "n", "n">>, "mostly-cook", Num(50), Num(700)),
               Uuid(1), DateAt(35 * TicksPerDay))

InitProfile ==
    /\ params = IdleParams
    /\ NotCalled
    /\ hookVersion \in HookVersions
    /\ localStorage \in [Keys -> {NoItem, JsonText(JsNull),
                                   JSONstringify(StoredProfile)}]
    /\ localStorage[FinancialsKey] = NoItem
    /\ hooks = [i \in Hooks |-> Unmounted]
    /\ lastSet = NoSet
    /\ NoApp

(* The first render of ProfileProvider *)
MountProfile ==
    /\ ~profileHook.mounted
    /\ profileHook' =
           [mounted |-> TRUE,
            storedValue |-> InitialProfileValue(localStorage[ProfileKey]),
            rendered |-> InitialProfileValue(localStorage[ProfileKey]),
            error |-> JsNull]
    /\ UNCHANGED <<warning, form, dashboard>>
    /\ UNCHANGED storageVars
    /\ UNCHANGED runwayVars

(* A later render: profile, hasProfile and the three functions are made    *)
(* anew over the current state.                                            *)
RenderProfile ==
    /\ profileHook.mounted
    /\ profileHook.rendered # profileHook.storedValue
    /\ profileHook' = [profileHook EXCEPT !.rendered = profileHook.storedValue]
    /\ UNCHANGED <<warning, form, dashboard>>
    /\ UNCHANGED storageVars
    /\ UNCHANGED runwayVars

(* setProfile(value): setValue of useLocalStorage on the profile key *)
SetProfile(value, quotaExceeded) ==
    LET set == [profileHook EXCEPT !.storedValue = value]
        written == [localStorage EXCEPT ![ProfileKey] = JSONstringify(value)]
    IN  /\ localStorage' = IF quotaExceeded THEN localStorage ELSE written
        /\ profileHook' =
               IF quotaExceeded
               THEN [set EXCEPT !.error = QuotaExceededError]
               ELSE IF hookVersion = Part001Version
               THEN handleProfileStorageEvent(set, written)
               ELSE set
        /\ UNCHANGED <<hookVersion, hooks, lastSet>>
        /\ UNCHANGED <<warning, form, dashboard>>
        /\ UNCHANGED runwayVars

createProfile(data, id, now, quotaExceeded) ==
    /\ profileHook.mounted
    /\ SetProfile(NewProfile(data, id, now), quotaExceeded)

(* updateProfile: `if (!profile) return`, then the functional update over  *)
(* the value the callback of setValue has captured.                        *)
updateProfile(updates, now, quotaExceeded) ==
    /\ profileHook.mounted
    /\ IF profileHook.rendered = JsNull
       THEN UNCHANGED vars
       ELSE SetProfile(UpdatedProfile(profileHook.rendered, updates, now),
                       quotaExceeded)

resetProfile(quotaExceeded) ==
    /\ profileHook.mounted
    /\ SetProfile(JsNull, quotaExceeded)

NextProfile ==
    \/ MountProfile
    \/ RenderProfile
    \/ \E data \in ProfileDatas, now \in Clock, quotaExceeded \in BOOLEAN :
           \E id \in NewIds(now) : createProfile(data, id, now, quotaExceeded)
    \/ \E updates \in ProfileUpdates, now \in Clock, quotaExceeded \in BOOLEAN :
           updateProfile(updates, now, quotaExceeded)
    \/ \E quotaExceeded \in BOOLEAN : resetProfile(quotaExceeded)

SpecProfile == InitProfile /\ [][NextProfile]_vars

----------------------------------------------------------------------------
(* OnboardingFlow.tsx (validateInputs, handleSubmit) and                    *)
(* useRunwayCalculation (runway-calculator/hooks.ts)                        *)

(* String.prototype.trim on a sequence of characters *)
RECURSIVE trimStart(_)
trimStart(name) ==
    IF name # <<>> /\ Head(name) = " " THEN trimStart(Tail(name)) ELSE name

RECURSIVE trimEnd(_)
trimEnd(name) ==
    IF name # <<>> /\ name[Len(name)] = " "
    THEN trimEnd(SubSeq(name, 1, Len(name) - 1))
    ELSE name

trim(name) == trimEnd(trimStart(name))

(* The keys of newErrors *)
validationErrors(f) ==
    (IF f.name = <<>> \/ trim(f.name) = <<>> THEN {"name"} ELSE {})
    \cup (IF ~isFinite(f.currentBalance) \/ f.currentBalance.h < 0
              \/ f.currentBalance.h > 10000000 * Scale
          THEN {"balance"} ELSE {})
    \cup (IF ~isFinite(f.cheapestMeal) \/ f.cheapestMeal.h <= 0
              \/ f.cheapestMeal.h > 5000 * Scale
          THEN {"mealCost"} ELSE {})

validateInputs(f) == validationErrors(f) = {}

profileData(f) ==
    ProfileData(trim(f.name), f.foodHabits, f.cheapestMeal, f.currentBalance)

(* What the user may have typed into the form *)
FormNames == {<<>>, <<" ">>, <<" ", "A", " ">>}

FormBalances ==
    {PosInfinity, Fin(-1), Num(0), Fin(1), Num(10000000),
     Fin(10000000 * Scale + 1)}

FormMeals ==
    {PosInfinity, Num(0), Fin(1), Num(50), Num(5000), Fin(5000 * Scale + 1)}

Forms ==
    [name : FormNames, currentBalance : FormBalances,
     cheapestMeal : FormMeals, foodHabits : FoodHabits, errors : {{}}]

(* 'Finish Setup' on the last step: handleNext and handleSubmit validate,  *)
(* setErrors records the outcome, and a valid form creates the profile.    *)
handleSubmit(id, now, quotaExceeded) ==
    /\ profileHook.mounted
    /\ ~hasProfile(profileHook)
    /\ form' = [form EXCEPT !.errors = validationErrors(form)]
    /\ IF validateInputs(form)
       THEN LET value == NewProfile(profileData(form), id, now)
                set == [profileHook EXCEPT !.storedValue = value]
                written == [localStorage EXCEPT
                                ![ProfileKey] = JSONstringify(value)]
            IN  /\ localStorage' =
                       IF quotaExceeded THEN localStorage ELSE written
                /\ profileHook' =
                       IF quotaExceeded
                       THEN [set EXCEPT !.error = QuotaExceededError]
                       ELSE IF hookVersion = Part001Version
                       THEN handleProfileStorageEvent(set, written)
                       ELSE set
       ELSE UNCHANGED <<localStorage, profileHook>>
    /\ UNCHANGED <<hookVersion, hooks, lastSet>>
    /\ UNCHANGED <<warning, dashboard>>
    /\ UNCHANGED runwayVars

(* dailyVariableMultiplier in tenths: 1.8, 3.0, 2.5 *)
dailyVariableMultiplierFlat(foodHabits) == 25

dailyVariableMultiplier(foodHabits) ==
    IF foodHabits = "mostly-cook" THEN 18
    ELSE IF foodHabits = "mostly-buy" THEN 30
    ELSE 25

(* Math.ceil of the rational numerator / denominator *)
MathCeil(numerator, denominator) == -((-numerator) \div denominator)

estimatedDailySpend(profile) ==
    Num(MathCeil(profile.cheapestMealCost.h
                     * dailyVariableMultiplier(profile.foodHabits),
                 10 * Scale))

RunwayParams(profile, financials, today) ==
    [currentBalance |-> profile.currentBalance,
     startDate |-> today,
     fixedExpenses |-> financials.fixedExpenses,
     incomeEvents |-> financials.incomeEvents,
     dailyVariableSpend |-> estimatedDailySpend(profile)]

(* { ...result, estimatedDailySpend }; a throw of calculateRunway passes    *)
(* through the hook.                                                       *)
useRunwayCalculation(profile, financials, today) ==
    IF profile = JsNull THEN JsNull
    ELSE LET outcome == calculateRunway(RunwayParams(profile, financials, today))
         IN  IF outcome.threw THEN outcome
             ELSE [f \in DOMAIN outcome \cup {"estimatedDailySpend"} |->
                      IF f = "estimatedDailySpend"
                      THEN estimatedDailySpend(profile)
                      ELSE outcome[f]]

(* The first render of the dashboard, shown by App once hasProfile holds:  *)
(* useRunwayCalculation mounts its own useStudentProfile and useFinancials *)
(* instances, which read localStorage, and calls calculateRunway.          *)
RenderDashboard(today) ==
    /\ hasProfile(profileHook)
    /\ ~dashboard.rendered
    /\ pc = "ready"
    /\ LET profile == InitialProfileValue(localStorage[ProfileKey])
           financials == InitialStoredValue(localStorage[FinancialsKey])
           runway == useRunwayCalculation(profile, financials, today)
       IN  /\ dashboard' = [rendered |-> TRUE, profile |-> profile,
                            runway |-> runway]
           /\ IF profile = JsNull
              THEN UNCHANGED <<params, pc, result>>
              ELSE /\ params' = RunwayParams(profile, financials, today)
                   /\ result' = calculateRunway(params')
                   /\ pc' = IF result'.threw THEN "thrown" ELSE "returned"
    /\ UNCHANGED safeResult
    /\ UNCHANGED storageVars
    /\ UNCHANGED <<warning, profileHook, form>>

StoredMidDay ==
    JsonText(FinancialData(<<Expense("Rent", Num(500), Fin(Scale + 1))>>,
                           <<>>))

InitOnboarding ==
    /\ params = IdleParams
    /\ NotCalled
    /\ hookVersion \in HookVersions
    /\ localStorage \in [Keys -> {NoItem, StoredMidDay}]
    /\ localStorage[ProfileKey] = NoItem
    /\ hooks = [i \in Hooks |-> Unmounted]
    /\ lastSet = NoSet
    /\ warning = Hidden
    /\ profileHook = Unmounted
    /\ form \in Forms
    /\ dashboard = NoDashboard

NextOnboarding ==
    \/ MountProfile
    \/ RenderProfile
    \/ \E now \in Clock, quotaExceeded \in BOOLEAN :
           \E id \in NewIds(now) : handleSubmit(id, now, quotaExceeded)
    \/ \E today \in StartDates : RenderDashboard(today)

SpecOnboarding == InitOnboarding /\ [][NextOnboarding]_vars

----------------------------------------------------------------------------
(* Reference quantities used by the properties *)

Returned == pc = "returned"

Simulated == Returned /\ params.currentBalance.h >= 0

Minimum(a, b) == IF a < b THEN a ELSE b

LastDayOfMonth(d) ==
    DaysInMonth(Calendar[DayIndex(d)].y, Calendar[DayIndex(d)].m)

(* The obligations due on date d: by equality of the day of month, or by  *)
(* the due day clamped to the last day of the month of d.                 *)
DueAmount(fixedExpenses, d, clamped) ==
    SumAmounts(SelectSeq(fixedExpenses,
        LAMBDA e : IF clamped
                   THEN Minimum(e.dueDay.h, LastDayOfMonth(d) * Scale)
                            = getDate(d) * Scale
                   ELSE e.dueDay.h = getDate(d) * Scale))

IncomeOn(incomeEvents, d) ==
    SumAmounts(SelectSeq(incomeEvents,
        LAMBDA e : DayIndex(e.date) = DayIndex(d)))

LedgerDay(p, s, clamped) ==
    LET b == s.balance + IncomeOn(p.incomeEvents, s.date)
                       - DueAmount(p.fixedExpenses, s.date, clamped)
                       - p.dailyVariableSpend.h
    IN  [balance |-> b, date |-> DateAt(s.date.t + TicksPerDay),
         endOfDay |-> Append(s.endOfDay, b)]

RECURSIVE LedgerRun(_, _, _, _)
LedgerRun(p, s, n, clamped) ==
    IF n = 0 THEN s
    ELSE IF n = 1 THEN LedgerDay(p, s, clamped)
    ELSE Only({LedgerRun(p, mid, n - (n \div 2), clamped) :
                   mid \in {LedgerRun(p, s, n \div 2, clamped)}})

(* The end-of-day balances of the first n days from startDate, every day  *)
(* accounted whether or not the balance is negative.                      *)
Ledger(p, n, clamped) ==
    LedgerRun(p, [balance |-> p.currentBalance.h, date |-> p.startDate,
                  endOfDay |-> <<>>], n, clamped).endOfDay

----------------------------------------------------------------------------
(* C1: the returned projectedBalance has exactly daysRemaining entries.    *)
C1_LengthIsDaysRemaining ==
    Returned => Len(result.projectedBalance) = result.daysRemaining

(* C2: every recorded day's balance is the one obtained when each          *)
(* obligation is debited on the day whose day of month is                  *)
(* min(dueDay, last day of that month).                                    *)
C2_MonthEndClamping ==
    Simulated =>
        LET n == Len(result.projectedBalance)
            clamped == Ledger(params, n, TRUE)
        IN  \A k \in 1..n :
                result.projectedBalance[k].balance.h = MathFloor(clamped[k])

(* C3: with everything else fixed, a balance larger by extra >= 0 never    *)
(* gives fewer daysRemaining.                                              *)
Extras == {1, 100 * Scale}

WithBalance(p, h) == [p EXCEPT !.currentBalance = Fin(h)]

C3_MonotoneInBalance ==
    Returned =>
        \A extra \in Extras :
            params.currentBalance.h + extra <= MaxBalance * Scale =>
                calculateRunway(WithBalance(params,
                    params.currentBalance.h + extra)).daysRemaining
                  >= result.daysRemaining

C3_Witness ==
    /\ Returned
    /\ result.daysRemaining > 0
    /\ \E extra \in Extras :
          /\ params.currentBalance.h + extra <= MaxBalance * Scale
          /\ calculateRunway(WithBalance(params,
                 params.currentBalance.h + extra)).daysRemaining
               > result.daysRemaining

(* C4: a valid input with a negative balance returns the fixed             *)
(* short-circuit result, whatever the income events.                       *)
C4_NegativeShortCircuit ==
    (pc # "ready" /\ params.currentBalance.h < 0) =>
        /\ pc = "returned"
        /\ result.daysRemaining = 0
        /\ result.safeDailySpend = Num(0)
        /\ result.brokeDate = params.startDate
        /\ result.status = "critical"
        /\ result.projectedBalance = <<>>

C4_Witness ==
    /\ Returned
    /\ params.currentBalance.h < 0
    /\ \E i \in 1..Len(params.incomeEvents) :
          isSameDay(params.incomeEvents[i].date, params.startDate)

(* C5: a scalar InvalidInput is thrown exactly when currentBalance is      *)
(* non-finite or outside [-1,000,000, 100,000,000] or dailyVariableSpend   *)
(* is non-finite, negative or above 100,000; the four boundary values are  *)
(* accepted.                                                               *)
ScalarMessages ==
    {"Invalid balance", "Balance too low", "Balance too high",
     "Invalid daily spend", "Daily spend cannot be negative",
     "Daily spend unrealistically high"}

ScalarViolated(p) ==
    \/ p.currentBalance.k # "fin"
    \/ p.currentBalance.h < (-1000000) * Scale
    \/ p.currentBalance.h > 100000000 * Scale
    \/ p.dailyVariableSpend.k # "fin"
    \/ p.dailyVariableSpend.h < 0
    \/ p.dailyVariableSpend.h > 100000 * Scale

InvalidAmount(x) == ~(x.k = "fin" /\ x.h > 0)

InvalidDueDay(x) ==
    ~(x.k = "fin" /\ x.h % Scale = 0 /\ x.h >= Scale /\ x.h <= 31 * Scale)

InvalidExpenseAt(p, i) ==
    InvalidAmount(p.fixedExpenses[i].amount)
        \/ InvalidDueDay(p.fixedExpenses[i].dueDay)

InvalidIncomeAt(p, i) ==
    InvalidAmount(p.incomeEvents[i].amount) \/ ~p.incomeEvents[i].date.valid

InvalidExpenseIndexes(p) ==
    {i \in 1..Len(p.fixedExpenses) : InvalidExpenseAt(p, i)}

InvalidIncomeIndexes(p) ==
    {i \in 1..Len(p.incomeEvents) : InvalidIncomeAt(p, i)}

Least(S) == CHOOSE x \in S : \A y \in S : x <= y

FirstOffenderName(p) ==
    IF InvalidExpenseIndexes(p) # {}
    THEN <<p.fixedExpenses[Least(InvalidExpenseIndexes(p))].name>>
    ELSE <<p.incomeEvents[Least(InvalidIncomeIndexes(p))].source>>

FirstOffenderMessage(p) ==
    IF InvalidExpenseIndexes(p) # {}
    THEN IF InvalidAmount(
                p.fixedExpenses[Least(InvalidExpenseIndexes(p))].amount)
         THEN "Invalid expense amount" ELSE "Invalid dueDay"
    ELSE IF InvalidAmount(
                p.incomeEvents[Least(InvalidIncomeIndexes(p))].amount)
         THEN "Invalid income amount" ELSE "Invalid income date"

HasInvalidRecord(p) ==
    InvalidExpenseIndexes(p) # {} \/ InvalidIncomeIndexes(p) # {}

C6_RecordValidation ==
    (pc # "ready" /\ HasInvalidRecord(params)) =>
        /\ pc = "thrown"
        /\ result.threw
        /\ result.error.name # <<>> =>
              /\ result.error.name = FirstOffenderName(params)
              /\ result.error.message = FirstOffenderMessage(params)
        /\ (~ScalarViolated(params) /\ params.startDate.valid) =>
              result.error.name # <<>>

C6_Witness ==
    /\ pc = "thrown"
    /\ Len(params.fixedExpenses) = 2
    /\ ~InvalidExpenseAt(params, 1)
    /\ InvalidDueDay(params.fixedExpenses[2].dueDay)
    /\ result.error.name = <<params.fixedExpenses[2].name>>
    /\ result.error.message = "Invalid dueDay"

(* C7: daysRemaining is the number of consecutive simulated days from      *)
(* startDate, at most 365, that end with a balance >= 0: a day ending at   *)
(* exactly 0 counts, the first day ending negative does not.               *)
C7_DaysRemainingCountsSolventDays ==
    Simulated =>
        LET endOfDay == Ledger(params, 365, FALSE)
            n == result.daysRemaining
        IN  /\ n \in 0..365
            /\ \A k \in 1..n : endOfDay[k] >= 0
            /\ n < 365 => endOfDay[n + 1] < 0

C7_Witness ==
    /\ Simulated
    /\ result.daysRemaining \in 1..364
    /\ Ledger(params, 365, FALSE)[result.daysRemaining] = 0

(* C8: for a non-negative balance brokeDate is the first simulated date    *)
(* ending with a negative balance, or startDate + 365 days when there is   *)
(* none within the horizon; either way it is startDate + daysRemaining.    *)
NegativeDays(endOfDay) == {k \in 1..365 : endOfDay[k] < 0}

C8_BrokeDate ==
    Simulated =>
        LET endOfDay == Ledger(params, 365, FALSE)
            negative == NegativeDays(endOfDay)
        IN  /\ result.brokeDate
                  = DateAt(params.startDate.t
                             + result.daysRemaining * TicksPerDay)
            /\ result.brokeDate
                  = IF negative = {}
                    THEN DateAt(params.startDate.t + 365 * TicksPerDay)
                    ELSE DateAt(params.startDate.t
                                  + (Least(negative) - 1) * TicksPerDay)

C8_Witness ==
    /\ Simulated
    /\ result.daysRemaining \in 1..364
    /\ result.brokeDate # params.startDate
    /\ Len(result.projectedBalance) = result.daysRemaining + 1
    /\ result.projectedBalance[result.daysRemaining + 1].balance.h < 0

(* C9: status is critical iff daysRemaining < 7, warning iff               *)
(* 7 <= daysRemaining < 30, good iff daysRemaining >= 30, and nothing      *)
(* else.                                                                   *)
C9_StatusBands ==
    Returned =>
        /\ result.status \in {"critical", "warning", "good"}
        /\ result.status = "critical" <=> result.daysRemaining < 7
        /\ result.status = "warning"
              <=> (7 <= result.daysRemaining /\ result.daysRemaining < 30)
        /\ result.status = "good" <=> result.daysRemaining >= 30

C9_Witness ==
    /\ Returned
    /\ result.daysRemaining = 7
    /\ result.status = "warning"

(* C10: with a non-negative balance and all due days <= 28,                *)
(* safeDailySpend = max(0, floor(A / 30)), A = currentBalance + the income *)
(* dated within [startDate, startDate + 30 days] - the obligations due on  *)
(* the 30 days from startDate; it is a non-negative integer and            *)
(* dailyVariableSpend does not occur in it.                                *)
RECURSIVE SumInts(_)
SumInts(xs) == IF xs = <<>> THEN 0 ELSE Head(xs) + SumInts(Tail(xs))

IncomeWithin30Days(p) ==
    SumInts([i \in 1..Len(p.incomeEvents) |->
        IF /\ p.startDate.t <= p.incomeEvents[i].date.t
           /\ p.incomeEvents[i].date.t <= p.startDate.t + 30 * TicksPerDay
        THEN p.incomeEvents[i].amount.h ELSE 0])

TimesDueIn30Days(p, dueDay) ==
    Cardinality({k \in 0..29 :
        Calendar[DayIndex(p.startDate) + k].d * Scale = dueDay.h})

ObligationsIn30Days(p) ==
    SumInts([i \in 1..Len(p.fixedExpenses) |->
        p.fixedExpenses[i].amount.h
            * TimesDueIn30Days(p, p.fixedExpenses[i].dueDay)])

Available30(p) ==
    p.currentBalance.h + IncomeWithin30Days(p) - ObligationsIn30Days(p)

AllDueBy28(p) ==
    \A i \in 1..Len(p.fixedExpenses) : p.fixedExpenses[i].dueDay.h <= 28 * Scale

C10_SafeDailySpend ==
    (Simulated /\ AllDueBy28(params)) =>
        /\ result.safeDailySpend.k = "fin"
        /\ result.safeDailySpend.h % Scale = 0
        /\ result.safeDailySpend.h >= 0
        /\ result.safeDailySpend.h
              = IF Available30(params) \div (30 * Scale) > 0
                THEN (Available30(params) \div (30 * Scale)) * Scale
                ELSE 0
        /\ \A spend \in ValidSpends :
              calculateRunway([params EXCEPT !.dailyVariableSpend = spend])
                  .safeDailySpend = result.safeDailySpend

C10_Witness ==
    /\ Simulated
    /\ AllDueBy28(params)
    /\ params.fixedExpenses # <<>>
    /\ \E i \in 1..Len(params.incomeEvents) :
          params.incomeEvents[i].date.t
              = params.startDate.t + 30 * TicksPerDay
    /\ result.safeDailySpend.h > 0

(* C11: with a non-negative balance, spending the returned safeDailySpend  *)
(* every day reaches the 30-day target: the call with dailyVariableSpend   *)
(* replaced by safeDailySpend returns daysRemaining >= 30.                 *)
SpendingSafely(p, r) == [p EXCEPT !.dailyVariableSpend = r.safeDailySpend]

C11_SafeSpendReaches30Days ==
    Simulated =>
        /\ ~calculateRunway(SpendingSafely(params, result)).threw
        /\ calculateRunway(SpendingSafely(params, result)).daysRemaining >= 30

C14_LoopBounded ==
    Returned =>
        /\ Len(result.projectedBalance) <= 365
        /\ result.daysRemaining \in 0..365
        /\ params.currentBalance.h >= 0 =>
              \/ result.daysRemaining = 365
              \/ /\ Len(result.projectedBalance) = result.daysRemaining + 1
                 /\ result.projectedBalance[result.daysRemaining + 1]
                        .balance.h < 0

C14_Witness ==
    /\ Simulated
    /\ params.dailyVariableSpend.h = 0
    /\ params.fixedExpenses = <<>>
    /\ result.daysRemaining = 365
    /\ Len(result.projectedBalance) = 365

(* C15: calculateRunwaySafe returns success = false exactly for the        *)
(* inputs on which calculateRunway throws, with the thrown message as      *)
(* error, and success = true with the identical result otherwise.          *)
C15_SafeWrapper ==
    safeResult # NoSafeResult =>
        IF calculateRunway(params).threw
        THEN safeResult = [success |-> FALSE,
                           error |-> calculateRunway(params).error]
        ELSE safeResult = [success |-> TRUE,
                           result |-> calculateRunway(params)]

C15_Witness ==
    /\ safeResult # NoSafeResult
    /\ ~safeResult.success
    /\ safeResult.error.message = "Invalid dueDay"

(* C16: with no obligations, no income and a non-negative balance,         *)
(* daysRemaining is 365 at a daily spend of 0 and                          *)
(* min(365, floor(currentBalance / dailyVariableSpend)) at a positive one; *)
(* 1000 at 100 a day gives 10.                                             *)
ScenarioBalances ==
    {Fin(1), Num(1000), Num(36499), Fin(36500 * Scale - 1), Num(36500)}

ScenarioSpends == {Fin(1), Num(100), Fin(2 * Scale + 1)}

DaysWithoutCashFlows(currentBalance, dailyVariableSpend) ==
    IF dailyVariableSpend.h = 0 THEN 365
    ELSE Minimum(365, currentBalance.h \div dailyVariableSpend.h)

Scenario(p, currentBalance, dailyVariableSpend) ==
    [p EXCEPT !.currentBalance = currentBalance,
              !.dailyVariableSpend = dailyVariableSpend]

C16_NoCashFlows ==
    (Simulated /\ params.fixedExpenses = <<>> /\ params.incomeEvents = <<>>)
    =>  /\ result.daysRemaining
              = DaysWithoutCashFlows(params.currentBalance,
                                     params.dailyVariableSpend)
        /\ \A b \in ScenarioBalances, spend \in ScenarioSpends :
              calculateRunway(Scenario(params, b, spend)).daysRemaining
                  = DaysWithoutCashFlows(b, spend)
        /\ calculateRunway(Scenario(params, Num(1000), Num(100)))
              .daysRemaining = 10

C16_Witness ==
    /\ Simulated
    /\ params.fixedExpenses = <<>>
    /\ params.incomeEvents = <<>>
    /\ params.dailyVariableSpend.h > 0
    /\ result.daysRemaining = 7

(* C19: within a simulated day the income dated that calendar day is       *)
(* credited before the day's obligations and dailyVariableSpend are        *)
(* debited and before the solvency check: a day is survived iff the        *)
(* balance at its start + its income - its obligations - the spend >= 0.   *)
DateOfDay(p, k) == DateAt(p.startDate.t + (k - 1) * TicksPerDay)

StartOfDay(p, endOfDay, k) ==
    IF k = 1 THEN p.currentBalance.h ELSE endOfDay[k - 1]

C19_IncomeBeforeDebits ==
    Simulated =>
        LET endOfDay == Ledger(params, 365, FALSE)
            n == result.daysRemaining
        IN  \A k \in 1..Minimum(n + 1, 365) :
                (k <= n) <=>
                    StartOfDay(params, endOfDay, k)
                      + IncomeOn(params.incomeEvents, DateOfDay(params, k))
                      - DueAmount(params.fixedExpenses,
                                  DateOfDay(params, k), FALSE)
                      - params.dailyVariableSpend.h >= 0

C19_Witness ==
    /\ Simulated
    /\ params.currentBalance.h = 0
    /\ params.dailyVariableSpend.h > 0
    /\ \E i \in 1..Len(params.incomeEvents) :
          /\ DayIndex(params.incomeEvents[i].date) = DayIndex(params.startDate)
          /\ params.incomeEvents[i].date # params.startDate
    /\ result.daysRemaining > 0

(* C20: for integer inputs the k-th entry of projectedBalance (k from 0)   *)
(* is dated startDate + k days and its balance is currentBalance + the     *)
(* income dated on days 0..k - the obligations due on days 0..k, all of    *)
(* those due the same day, - (k + 1) * dailyVariableSpend; the dates       *)
(* increase by one day from entry to entry.                                *)
IntegerInputs(p) ==
    /\ p.currentBalance.h % Scale = 0
    /\ p.dailyVariableSpend.h % Scale = 0
    /\ \A i \in 1..Len(p.fixedExpenses) : p.fixedExpenses[i].amount.h % Scale = 0
    /\ \A i \in 1..Len(p.incomeEvents) : p.incomeEvents[i].amount.h % Scale = 0

DueOffsets(p, expense) ==
    {j \in 0..364 :
        Calendar[DayIndex(p.startDate) + j].d * Scale = expense.dueDay.h}

IncomeUpTo(p, k) ==
    SumInts([i \in 1..Len(p.incomeEvents) |->
        IF DayIndex(p.incomeEvents[i].date) - DayIndex(p.startDate) \in 0..k
        THEN p.incomeEvents[i].amount.h ELSE 0])

ObligationsUpTo(p, due, k) ==
    SumInts([i \in 1..Len(p.fixedExpenses) |->
        p.fixedExpenses[i].amount.h * Cardinality({j \in due[i] : j <= k})])

C20_ProjectionEntries ==
    (Simulated /\ IntegerInputs(params)) =>
        LET projection == result.projectedBalance
            due == [i \in 1..Len(params.fixedExpenses) |->
                       DueOffsets(params, params.fixedExpenses[i])]
        IN  /\ \A k \in 0..(Len(projection) - 1) :
                  /\ projection[k + 1].date.iso
                        = params.startDate.t + k * TicksPerDay
                  /\ projection[k + 1].balance
                        = Fin(params.currentBalance.h + IncomeUpTo(params, k)
                                - ObligationsUpTo(params, due, k)
                                - (k + 1) * params.dailyVariableSpend.h)
            /\ \A k \in 1..(Len(projection) - 1) :
                  projection[k + 1].date.iso
                      = projection[k].date.iso + TicksPerDay

C20_Witness ==
    /\ Simulated
    /\ IntegerInputs(params)
    /\ Len(params.fixedExpenses) = 2
    /\ params.fixedExpenses[1].dueDay = params.fixedExpenses[2].dueDay
    /\ params.incomeEvents # <<>>
    /\ \E k \in 1..Len(result.projectedBalance) :
          /\ getDate(DateOfDay(params, k)) * Scale
                = params.fixedExpenses[1].dueDay.h
          /\ k < Len(result.projectedBalance)

(* C17: the initialisation of useLocalStorage yields initialValue, with    *)
(* error null, whenever the key is absent, the stored text is not valid    *)
(* JSON or the parsed value fails the schema, and yields the stored value  *)
(* only when the text parses and the value passes the schema.              *)
IsDateObject(v) == DOMAIN v = {"valid", "t"} /\ v.valid

MeetsFinancialDataSchema(v) ==
    /\ v.type = "object"
    /\ \A i \in 1..Len(v.fixedExpenses) :
          /\ v.fixedExpenses[i].name # ""
          /\ v.fixedExpenses[i].amount.h > 0
          /\ v.fixedExpenses[i].dueDay.h \in (1 * Scale)..(31 * Scale)
    /\ \A i \in 1..Len(v.incomeEvents) :
          /\ v.incomeEvents[i].source # ""
          /\ v.incomeEvents[i].amount.h > 0
          /\ IsDateObject(v.incomeEvents[i].date)

ParsesAndPasses(item) ==
    item.kind = "json" /\ MeetsFinancialDataSchema(item.value)

C17_InitialisationFallsBack ==
    [][\A i \in Hooks :
          (~hooks[i].mounted /\ hooks'[i].mounted) =>
              /\ hooks'[i].error = JsNull
              /\ hooks'[i].storedValue
                    = IF ParsesAndPasses(localStorage[FinancialsKey])
                      THEN localStorage[FinancialsKey].value
                      ELSE initialValue]_vars

C17_Witness ==
    /\ hooks["hook1"].mounted
    /\ hooks["hook1"].storedValue = initialValue
    /\ hooks["hook1"].error = JsNull
    /\ localStorage[FinancialsKey] = CorruptText
    /\ hooks["hook2"].mounted
    /\ hooks["hook2"].storedValue = initialValue
    /\ lastSet = NoSet

(* C18: after setValue in one instance has stored a value and the change   *)
(* notification has been delivered, every instance on the key in the tab   *)
(* holds that value.                                                       *)
C18_SingleSourceOfTruth ==
    (lastSet.stored /\ lastSet.dispatched) =>
        \A j \in Hooks :
            hooks[j].mounted => hooks[j].storedValue = lastSet.value

----------------------------------------------------------------------------
(* Advisory fields of the records (types of part_009:4-21): the income      *)
(* event's id, source, reliability and isReceived, the obligation's id,     *)
(* name and category.  AdvisoryChoices holds two complete labellings that   *)
(* differ in every one of them.                                             *)
AdvisoryChoices ==
    {[id |-> "id-a", label |-> "A", reliability |-> "certain",
      isReceived |-> FALSE, category |-> "housing"],
     [id |-> "id-b", label |-> "B", reliability |-> "uncertain",
      isReceived |-> TRUE, category |-> "other"]}

AdvisedIncome(income, a) ==
    [id |-> a.id, amount |-> income.amount, date |-> income.date,
     source |-> a.label, reliability |-> a.reliability,
     isReceived |-> a.isReceived]

AdvisedExpense(expense, a) ==
    [id |-> a.id, name |-> a.label, amount |-> expense.amount,
     dueDay |-> expense.dueDay, category |-> a.category]

WithAdvisoryFields(p, a) ==
    [p EXCEPT
       !.incomeEvents = [i \in 1..Len(@) |-> AdvisedIncome(@[i], a)],
       !.fixedExpenses = [i \in 1..Len(@) |-> AdvisedExpense(@[i], a)]]

(* C21: the result of a valid call does not depend on the advisory fields: *)
(* relabelling id, source, reliability and isReceived of every income      *)
(* event and id, name and category of every obligation, in either of two   *)
(* ways, gives the result of the call that was made (so an income event    *)
(* with isReceived = true is still credited).                              *)
C21_AdvisoryFieldsIgnored ==
    Returned =>
        \A a \in AdvisoryChoices :
            calculateRunway(WithAdvisoryFields(params, a)) = result

C21_Witness ==
    /\ Simulated
    /\ params.currentBalance = Num(0)
    /\ params.incomeEvents # <<>>
    /\ params.fixedExpenses # <<>>
    /\ result.daysRemaining > 0
    /\ \E a \in AdvisoryChoices :
          /\ a.isReceived
          /\ calculateRunway(WithAdvisoryFields(params, a)) = result

(* C22: validation is completed before the short circuit: a call whose     *)
(* balance is negative but inside the accepted band and whose daily spend, *)
(* start date, or some obligation or income record is invalid throws the   *)
(* error of that other precondition and returns no result.                 *)
NegativeWithinBand(p) ==
    /\ p.currentBalance.k = "fin"
    /\ p.currentBalance.h >= (-1000000) * Scale
    /\ p.currentBalance.h < 0

OtherPreconditionViolated(p) ==
    \/ p.dailyVariableSpend.k # "fin"
    \/ p.dailyVariableSpend.h < 0
    \/ p.dailyVariableSpend.h > 100000 * Scale
    \/ ~p.startDate.valid
    \/ HasInvalidRecord(p)

BalanceMessages ==
    {"Invalid balance", "Balance too low", "Balance too high"}

C22_ValidationBeforeShortCircuit ==
    (pc # "ready" /\ NegativeWithinBand(params)
        /\ OtherPreconditionViolated(params)) =>
        /\ pc = "thrown"
        /\ result.threw
        /\ result.error.message \notin BalanceMessages
        /\ safeResult # NoSafeResult => ~safeResult.success

C22_Witness ==
    /\ pc = "thrown"
    /\ NegativeWithinBand(params)
    /\ ~ScalarViolated(params)
    /\ params.startDate.valid
    /\ InvalidExpenseIndexes(params) = {}
    /\ InvalidIncomeIndexes(params) # {}
    /\ result.error.message = "Invalid income date"

----------------------------------------------------------------------------
(* C23: after a setValue whose write succeeded, and until another tab      *)
(* writes, the instance that was called holds the value passed or computed *)
(* and localStorage holds the JSON text of that value under the key.       *)
C23_SetValueStoresBoth ==
    lastSet.stored =>
        /\ hooks[lastSet.hook].storedValue = lastSet.value
        /\ localStorage[FinancialsKey] = JSONstringify(lastSet.value)

C23_Witness ==
    /\ hookVersion = Part001Version
    /\ lastSet.stored
    /\ lastSet.dispatched
    /\ lastSet.value = FinancialData(<<StoredRent>>, <<StoredHelb>>)
    /\ hooks[lastSet.hook].storedValue = lastSet.value
    /\ localStorage[FinancialsKey].value.incomeEvents[1].date
           = toISOString(StoredHelb.date)

(* C24: every functional update whose write succeeds stores the function   *)
(* applied to the most recent value of the instance (the value set by the  *)
(* calls made so far, rendered or not), in state and in localStorage, so   *)
(* that no earlier update is lost.                                         *)
FunctionalUpdates == {update \in Updates : update.op # "value"}

C24_FunctionalUpdates ==
    [][\A i \in Hooks : \A update \in FunctionalUpdates :
          SetValue(i, update, FALSE) =>
              /\ hooks'[i].storedValue
                     = valueToStore(update, hooks[i].storedValue)
              /\ localStorage'[FinancialsKey]
                     = JSONstringify(valueToStore(update,
                                                  hooks[i].storedValue))]_vars

(* C25: a setValue whose write to localStorage fails does not throw, makes *)
(* the error of the instance non-null and leaves the in-memory value and   *)
(* localStorage as they were, so that state and storage do not diverge.    *)
C25_FailedWriteKeepsValue ==
    [][\A i \in Hooks : \A update \in Updates :
          SetValue(i, update, TRUE) =>
              /\ hooks'[i].error # JsNull
              /\ hooks'[i].storedValue = hooks[i].storedValue
              /\ localStorage' = localStorage]_vars

(* C27: what a setValue of useFinancials has written to csc_financials_v1  *)
(* is read back by a fresh initialisation of the hook: the stored text     *)
(* parses to a value that passes FinancialDataSchema, and the new instance *)
(* starts with the expenses and income events that were set.               *)
WrittenByUseFinancials ==
    /\ lastSet.stored
    /\ localStorage[FinancialsKey] = JSONstringify(lastSet.value)

C27_PersistenceRoundTrip ==
    [][\A i \in Hooks :
          (WrittenByUseFinancials /\ Mount(i)) =>
              /\ ~JSONparse(localStorage[FinancialsKey]).threw
              /\ FinancialDataSchema(
                     JSONparse(localStorage[FinancialsKey]).value)
              /\ hooks'[i].storedValue = lastSet.value]_vars

(* C28: a storage event of another tab changes nothing but the in-memory   *)
(* value of the mounted instances, and that only when the key is the       *)
(* instance's key and the new text is non-empty, parses and passes the     *)
(* schema; the value is then the parsed one.  The error, the value         *)
(* captured by setValue and localStorage (beyond the other tab's own       *)
(* write) stay as they were.                                               *)
AcceptedByHandler(hook, key, newValue) ==
    hook.mounted /\ key = FinancialsKey /\ ParsesAndPasses(newValue)

C28_StorageEventFrame ==
    [][\A key \in Keys : \A newValue \in TextsOf(key) :
          StorageEvent(key, newValue) =>
              /\ localStorage' = [localStorage EXCEPT ![key] = newValue]
              /\ \A j \in Hooks :
                    /\ hooks'[j].error = hooks[j].error
                    /\ hooks'[j].mounted = hooks[j].mounted
                    /\ hooks'[j].rendered = hooks[j].rendered
                    /\ hooks'[j].storedValue =
                           IF AcceptedByHandler(hooks[j], key, newValue)
                           THEN newValue.value
                           ELSE hooks[j].storedValue]_vars

C28_Witness ==
    /\ lastSet = NoSet
    /\ localStorage[FinancialsKey] = NoItem
    /\ localStorage[ProfileKey] = JsonText(JsNull)
    /\ hooks["hook1"].mounted
    /\ hooks["hook1"].storedValue = FinancialData(<<StoredRent>>, <<>>)
    /\ hooks["hook1"].error = QuotaExceededError
    /\ hooks["hook2"].mounted
    /\ hooks["hook2"].storedValue = initialValue

(* C26: after a setValue whose write failed for lack of quota the warning  *)
(* eventually shows with the key that failed, and a warning that shows     *)
(* stays until it is dismissed or old data is cleared.                     *)
QuotaWriteFailed == lastSet # NoSet /\ ~lastSet.stored

C26_QuotaWarningShown ==
    /\ QuotaWriteFailed ~>
           (warning.showWarning /\ warning.errorKey = FinancialsKey)
    /\ [][(warning.showWarning /\ ~warning'.showWarning) =>
              (Dismiss \/ handleClearOldData(TRUE))]_vars

----------------------------------------------------------------------------
(* C29: hasProfile holds exactly when the profile of the render is not     *)
(* null; createProfile leaves a profile and resetProfile leaves none, and  *)
(* the next render shows it; updateProfile called while the hook has no    *)
(* profile changes neither the hook nor localStorage, and called on a      *)
(* profile it keeps the id and createdAt of that profile.                  *)
C29_ProfileLifecycle ==
    [][/\ hasProfile(profileHook') <=> profileHook'.rendered # JsNull
       /\ RenderProfile =>
              (hasProfile(profileHook') <=> profileHook.storedValue # JsNull)
       /\ \A data \in ProfileDatas, now \in Clock, quotaExceeded \in BOOLEAN :
              \A id \in NewIds(now) :
                  createProfile(data, id, now, quotaExceeded) =>
                      profileHook'.storedValue # JsNull
       /\ \A quotaExceeded \in BOOLEAN :
              resetProfile(quotaExceeded) => profileHook'.storedValue = JsNull
       /\ \A updates \in ProfileUpdates, now \in Clock,
             quotaExceeded \in BOOLEAN :
              updateProfile(updates, now, quotaExceeded) =>
                  IF hasProfile(profileHook)
                  THEN /\ profileHook'.storedValue # JsNull
                       /\ profileHook'.storedValue.id
                              = profileHook.rendered.id
                       /\ profileHook'.storedValue.createdAt
                              = profileHook.rendered.createdAt
                  ELSE /\ profileHook' = profileHook
                       /\ localStorage' = localStorage]_vars

(* C30: for a profile created through OnboardingFlow (non-empty name,      *)
(* 0 <= balance <= 10,000,000, 0 < cheapestMealCost <= 5000) the hook      *)
(* derives estimatedDailySpend = ceil(cheapestMealCost * m), m = 1.8, 3.0  *)
(* or 2.5 by food habit, a finite non-negative integer, and the balance    *)
(* and daily spend it passes to calculateRunway are inside the accepted    *)
(* ranges, so no scalar error is thrown; the hook returns null exactly     *)
(* when it has no profile.                                                 *)
ClaimedTenths(foodHabits) ==
    CASE foodHabits = "mostly-cook" -> 18
      [] foodHabits = "mixed" -> 25
      [] foodHabits = "mostly-buy" -> 30

IsCeilingOf(n, numerator, denominator) ==
    /\ n * denominator >= numerator
    /\ (n - 1) * denominator < numerator

C30_DerivedInputsAccepted ==
    dashboard.rendered =>
        /\ (dashboard.runway = JsNull) <=> (dashboard.profile = JsNull)
        /\ dashboard.profile # JsNull =>
              LET profile == dashboard.profile
                  spend == params.dailyVariableSpend
              IN  /\ profile.name # <<>>
                  /\ profile.currentBalance.k = "fin"
                  /\ profile.currentBalance.h \in 0..(10000000 * Scale)
                  /\ profile.cheapestMealCost.k = "fin"
                  /\ profile.cheapestMealCost.h \in 1..(5000 * Scale)
                  /\ spend.k = "fin"
                  /\ spend.h % Scale = 0
                  /\ spend.h >= 0
                  /\ spend.h <= 100000 * Scale
                  /\ IsCeilingOf(spend.h \div Scale,
                         profile.cheapestMealCost.h
                             * ClaimedTenths(profile.foodHabits),
                         10 * Scale)
                  /\ params.currentBalance = profile.currentBalance
                  /\ params.currentBalance.h >= (-1000000) * Scale
                  /\ params.currentBalance.h <= 100000000 * Scale
                  /\ pc \in {"returned", "thrown"}
                  /\ pc = "thrown" =>
                         /\ dashboard.runway.threw
                         /\ result.error.message \notin ScalarMessages
                  /\ pc = "returned" =>
                         /\ dashboard.runway.estimatedDailySpend = spend
                         /\ dashboard.runway.daysRemaining
                                = result.daysRemaining

C30_Witness ==
    /\ dashboard.rendered
    /\ dashboard.profile # JsNull
    /\ dashboard.profile.foodHabits = "mostly-cook"
    /\ dashboard.profile.cheapestMealCost = Fin(1)
    /\ dashboard.profile.currentBalance = Num(10000000)
    /\ pc = "returned"
    /\ params.dailyVariableSpend = Num(1)
    /\ dashboard.runway.estimatedDailySpend = Num(1)
    /\ result.daysRemaining = 365

====
